---- MODULE Spec2Model ----
(***************************************************************************)
(* Model of the building-energy repository:                                *)
(*   - src/src/preprocess_data_for_models.py : the preprocessing script    *)
(*     (rename, imputation, winsorizing, derived features, ordinal         *)
(*     encoding, standardization, export);                                 *)
(*   - src/src/energy_service.py, co2_service.py, service.py : the         *)
(*     serving endpoints (length validator, predictor call, response);     *)
(*   - src/tests/test_api.py : rows of the processed datasets sent to the  *)
(*     endpoints.                                                          *)
(*                                                                         *)
(* Numbers are exact rationals [n, d] in lowest terms with d > 0           *)
(* (floating-point rounding is not modelled); [n |-> 0, d |-> 0] is NaN.   *)
(* Energy columns are in kBtu, floors and years in their natural units,    *)
(* gfa_total is counted in units of 10^12 square feet so that              *)
(* gfa_total / (site_energy_use + 1e-9) stays within the integers of the   *)
(* model checker for the small energies the batches use.                   *)
(***************************************************************************)
EXTENDS Integers, Sequences, FiniteSets, TLC

VARIABLES
    \* the preprocessing script
    csv,        \* the raw CSV file at RAW_DATA_PATH: a sequence of raw rows
    pc,         \* position of the preprocessing script
    run,        \* how many times the script has been started
    df,         \* the script's DataFrame: a sequence of rows (column -> cell)
    medians,    \* the script's `medians` dict (column -> fill value)
    bounds,     \* the clip bounds winsorize logged, per column
    written,    \* the exports: one [co2, energy] record per finished run
    \* the serving endpoints
    model_store,      \* the BentoML model store: model -> its custom_objects
    features_energy,  \* feature list loaded with site_energy_use_model
    features_co2,     \* feature list loaded with ghg_emissions_model
    reqs,             \* the requests received so far, in order of arrival
    \* the ordinal encoders applied to one value
    enc               \* [kind, x, pc, out]

pvars == <<csv, pc, run, df, medians, bounds, written>>

svars == <<model_store, features_energy, features_co2, reqs>>

vars == <<csv, pc, run, df, medians, bounds, written,
          model_store, features_energy, features_co2, reqs, enc>>

-----------------------------------------------------------------------------
(* Exact rational arithmetic *)

Abs(x) == IF x < 0 THEN -x ELSE x

Sign(x) == IF x < 0 THEN -1 ELSE IF x > 0 THEN 1 ELSE 0

RECURSIVE Gcd(_, _)
Gcd(a, b) == IF b = 0 THEN a ELSE Gcd(b, a % b)

Rat(n, d) ==
    LET g == Gcd(Abs(n), Abs(d))
    IN  [n |-> Sign(d) * (n \div g), d |-> Abs(d) \div g]

Whole(k) == [n |-> k, d |-> 1]

NaN == [n |-> 0, d |-> 0]

IsNum(x) == x.d > 0

IsNaN(x) == x.d = 0 /\ x.n = 0

RAdd(a, b) ==
    IF ~(IsNum(a) /\ IsNum(b)) THEN NaN
    ELSE LET g == Gcd(a.d, b.d)
         IN  Rat(a.n * (b.d \div g) + b.n * (a.d \div g), a.d * (b.d \div g))

RNeg(a) == [n |-> -a.n, d |-> a.d]

RSub(a, b) == RAdd(a, RNeg(b))

RMul(a, b) ==
    IF ~(IsNum(a) /\ IsNum(b)) THEN NaN
    ELSE LET g1 == Gcd(Abs(a.n), b.d)
             g2 == Gcd(Abs(b.n), a.d)
         IN  IF a.n = 0 \/ b.n = 0 THEN Whole(0)
             ELSE [n |-> (a.n \div g1) * (b.n \div g2),
                   d |-> (a.d \div g2) * (b.d \div g1)]

\* x / 0 is +-inf ([+-1, 0]) and 0 / 0 is NaN, as in IEEE arithmetic
RDiv(a, b) ==
    IF ~(IsNum(a) /\ IsNum(b)) THEN NaN
    ELSE IF b.n = 0 THEN [n |-> Sign(a.n), d |-> 0]
    ELSE RMul(a, [n |-> Sign(b.n) * b.d, d |-> Abs(b.n)])

\* comparisons with NaN are false
RLt(a, b) ==
    /\ IsNum(a) /\ IsNum(b)
    /\ LET g == Gcd(a.d, b.d)
       IN  a.n * (b.d \div g) < b.n * (a.d \div g)

RLe(a, b) == IsNum(a) /\ IsNum(b) /\ ~RLt(b, a)

RECURSIVE RSum(_)
RSum(s) == IF s = <<>> THEN Whole(0) ELSE RAdd(Head(s), RSum(Tail(s)))

RECURSIVE Insert(_, _)
Insert(x, s) ==
    IF s = <<>> THEN <<x>>
    ELSE IF RLe(x, Head(s)) THEN <<x>> \o s
    ELSE <<Head(s)>> \o Insert(x, Tail(s))

RECURSIVE Sorted(_)
Sorted(s) == IF s = <<>> THEN <<>> ELSE Insert(Head(s), Sorted(Tail(s)))

DropNaN(s) == SelectSeq(s, IsNum)

Column(d, c) == [i \in DOMAIN d |-> d[i][c]]

-----------------------------------------------------------------------------
(* preprocess_data_for_models.py, section 3: renaming *)

columns_mapping ==
    [r \in {"SiteEnergyUse(kBtu)", "Electricity(kWh)", "Electricity(kBtu)",
            "NaturalGas(kBtu)", "SiteEUI(kBtu/sf)", "PropertyGFATotal",
            "NumberofFloors", "YearBuilt"} |->
        CASE r = "SiteEnergyUse(kBtu)" -> "site_energy_use"
          [] r = "Electricity(kWh)"    -> "electricity_kwh"
          [] r = "Electricity(kBtu)"   -> "electricity_kbtu"
          [] r = "NaturalGas(kBtu)"    -> "natural_gas_kbtu"
          [] r = "SiteEUI(kBtu/sf)"    -> "site_eui"
          [] r = "PropertyGFATotal"    -> "gfa_total"
          [] r = "NumberofFloors"      -> "num_floors"
          [] r = "YearBuilt"           -> "year_built"]

NewName(r) == IF r \in DOMAIN columns_mapping THEN columns_mapping[r] ELSE r

\* df.rename(columns=columns_mapping): columns outside the mapping keep their name
RenameRow(row) ==
    [c \in {NewName(r) : r \in DOMAIN row} |->
        row[CHOOSE r \in DOMAIN row : NewName(r) = c]]

RenameDf(d) == [i \in DOMAIN d |-> RenameRow(d[i])]

-----------------------------------------------------------------------------
(* section 4: imputation *)

\* Series.median(): NaN cells are skipped; the mean of the two middle values
\* for an even count; NaN when nothing is left
Median(s) ==
    LET x == Sorted(DropNaN(s))
        n == Len(x)
    IN  IF n = 0 THEN NaN
        ELSE IF n % 2 = 1 THEN x[(n + 1) \div 2]
        ELSE RMul(Rat(1, 2), RAdd(x[n \div 2], x[n \div 2 + 1]))

\* the `medians` dict as the script builds it from the frame it has loaded
MediansOf(d) ==
    [site_energy_use  |-> Rat(255494725, 100),
     electricity_kwh  |-> Rat(47241534, 100),
     electricity_kbtu |-> Whole(1611881),
     natural_gas_kbtu |-> Whole(498263),
     num_floors       |-> Whole(3),
     year_built       |-> Whole(1977),
     site_eui         |-> Rat(5190, 100),
     gfa_total        |-> Median(Column(d, "gfa_total"))]

FillNa(cell, v) == IF IsNaN(cell) THEN v ELSE cell

\* df.columns
Columns(d) == DOMAIN d[1]

\* the keys of `medians`, in the order the dict literal lists them
medians_keys ==
    <<"site_energy_use", "electricity_kwh", "electricity_kbtu", "natural_gas_kbtu",
      "num_floors", "year_built", "site_eui", "gfa_total">>

\* a fill loop that passes over the keys the frame does not have
MissingKeysSkipped(d) == {}

\* the keys for which df[col] raises KeyError
MissingKeys(d) == {c \in {medians_keys[k] : k \in DOMAIN medians_keys} : c \notin Columns(d)}

\* how many keys the fill loop gets through before df[col] raises
FilledKeys(d) ==
    {medians_keys[k] : k \in {j \in DOMAIN medians_keys :
        \A h \in 1..j : medians_keys[h] \in Columns(d)}}

\* for col, median_val in medians.items(): df[col] = df[col].fillna(median_val)
\* (the columns filled before the first KeyError, all of them when none is raised)
ImputeDf(d, med) ==
    [i \in DOMAIN d |->
        [c \in DOMAIN d[i] |->
            IF c \in DOMAIN med /\ c \in FilledKeys(d)
            THEN FillNa(d[i][c], med[c]) ELSE d[i][c]]]

-----------------------------------------------------------------------------
(* section 5: winsorizing *)

LowerPct == 1

UpperPct == 99

\* Series.quantile(q) with q = pct/100: linear interpolation between the two
\* order statistics around position q * (n - 1); NaN cells are skipped
Quantile(s, pct) ==
    LET x    == Sorted(DropNaN(s))
        n    == Len(x)
        i    == (pct * (n - 1)) \div 100
        frac == Rat((pct * (n - 1)) % 100, 100)
    IN  IF n = 0 THEN NaN
        ELSE IF frac.n = 0 THEN x[i + 1]
        ELSE RAdd(x[i + 1], RMul(frac, RSub(x[i + 2], x[i + 1])))

\* Series.clip(lower, upper): a NaN bound is no bound, a NaN cell stays NaN
Clip(x, lo, hi) ==
    IF IsNum(lo) /\ RLt(x, lo) THEN lo
    ELSE IF IsNum(hi) /\ RLt(hi, x) THEN hi
    ELSE x

WinsorBounds(series) ==
    [lower |-> Quantile(series, LowerPct), upper |-> Quantile(series, UpperPct)]

winsorize(series) ==
    LET b == WinsorBounds(series)
    IN  [i \in DOMAIN series |-> Clip(series[i], b.lower, b.upper)]

cols_to_winsorize ==
    <<"site_energy_use", "electricity_kwh", "electricity_kbtu",
      "natural_gas_kbtu", "num_floors", "site_eui", "gfa_total">>

Range(s) == {s[k] : k \in DOMAIN s}

\* the rows of d whose cells are all within the bounds of their column: what is
\* left when outliers are removed instead of clipped
WinsorizeDfDropping(d) ==
    LET b == [c \in Range(cols_to_winsorize) |-> WinsorBounds(Column(d, c))]
        Inside(row) == \A c \in Range(cols_to_winsorize) :
                           RLe(b[c].lower, row[c]) /\ RLe(row[c], b[c].upper)
    IN  SelectSeq(d, Inside)

\* for col in cols_to_winsorize: df[col] = winsorize(df[col])
WinsorizeDf(d) ==
    LET w == [c \in Range(cols_to_winsorize) |-> winsorize(Column(d, c))]
    IN  [i \in DOMAIN d |->
            [c \in DOMAIN d[i] |-> IF c \in DOMAIN w THEN w[c][i] ELSE d[i][c]]]

BoundsOf(d) == [c \in Range(cols_to_winsorize) |-> WinsorBounds(Column(d, c))]

-----------------------------------------------------------------------------
(* section 6: derived features *)

\* 1e-9 (kBtu)
Epsilon == Rat(1, 1000000000)

\* 100000 square feet, in the 10^12 square feet gfa_total is counted in
LargeGfa == Rat(1, 10000000)

DeriveRow(row) ==
    LET den == RAdd(row["site_energy_use"], Epsilon)
    IN  ("electricity_ratio"   :> RDiv(row["electricity_kbtu"], den))
     @@ ("gas_ratio"           :> RDiv(row["natural_gas_kbtu"], den))
     @@ ("f_is_large_building" :> IF RLt(LargeGfa, row["gfa_total"]) THEN 1 ELSE 0)
     @@ ("building_density"    :> RDiv(row["gfa_total"], den))
     @@ row

DeriveDf(d) == [i \in DOMAIN d |-> DeriveRow(d[i])]

-----------------------------------------------------------------------------
(* sections 7 and 8: ordinal encodings *)

values_floors == <<"0-4 etages", "5-8 etages", "8+ etages">>

\* conditions that leave the bin edge 4 uncovered
SelectFloorsGap(x) ==
    IF RLt(x, Whole(4)) THEN values_floors[1]
    ELSE IF RLt(Whole(4), x) /\ RLe(x, Whole(8)) THEN values_floors[2]
    ELSE IF RLt(Whole(8), x) THEN values_floors[3]
    ELSE "0"

\* np.select(conditions_floors, values_floors): the value of the first
\* condition that holds, and the default "0" when none does
SelectFloors(x) ==
    IF RLe(x, Whole(4)) THEN values_floors[1]
    ELSE IF RLt(Whole(4), x) /\ RLe(x, Whole(8)) THEN values_floors[2]
    ELSE IF RLt(Whole(8), x) THEN values_floors[3]
    ELSE "0"

categories_year == <<"1900-1960", "1961-1976", "1977-1980", "1981-1994", "1995-2015">>

\* bins that are closed on the left instead of on the right
year_built_category_strict(year) ==
    IF RLt(year, Whole(1960)) THEN "1900-1960"
    ELSE IF RLt(year, Whole(1976)) THEN "1961-1976"
    ELSE IF RLt(year, Whole(1980)) THEN "1977-1980"
    ELSE IF RLt(year, Whole(1994)) THEN "1981-1994"
    ELSE "1995-2015"

\* a comparison with NaN is false, so NaN falls through to the else branch
year_built_category(year) ==
    IF RLe(year, Whole(1960)) THEN "1900-1960"
    ELSE IF RLe(year, Whole(1976)) THEN "1961-1976"
    ELSE IF RLe(year, Whole(1980)) THEN "1977-1980"
    ELSE IF RLe(year, Whole(1994)) THEN "1981-1994"
    ELSE "1995-2015"

\* OrdinalEncoder(categories=[cats]).fit_transform: the 0-based position of the
\* label in cats; -1 stands for the ValueError it raises on an unknown label
OrdinalEncode(cats, label) ==
    IF \E k \in DOMAIN cats : cats[k] = label
    THEN (CHOOSE k \in DOMAIN cats : cats[k] = label) - 1
    ELSE -1

\* .astype(int) + 1
floors_cat(x) == OrdinalEncode(values_floors, SelectFloors(x)) + 1

year_built_cat(x) == OrdinalEncode(categories_year, year_built_category(x)) + 1

FloorsDf(d) == [i \in DOMAIN d |-> ("floors_cat" :> floors_cat(d[i]["num_floors"])) @@ d[i]]

YearDf(d) == [i \in DOMAIN d |-> ("year_built_cat" :> year_built_cat(d[i]["year_built"])) @@ d[i]]

Raises(d, c) == \E i \in DOMAIN d : d[i][c] = 0

-----------------------------------------------------------------------------
(* section 9: standardization *)
(* A standardized cell is [j, n, devs]: the column's deviations from its  *)
(* mean, scaled to coprime integers devs (one per fitted cell), the cell's *)
(* own scaled deviation j and the number n of fitted cells. It stands for  *)
(* j * sqrt(n / (devs[1]^2 + ... + devs[n]^2)); a zero is always           *)
(* [0, 1, <<>>] and NaN is [0, 0, <<>>].                                   *)

ZNaN == [j |-> 0, n |-> 0, devs |-> <<>>]

ZZero == [j |-> 0, n |-> 1, devs |-> <<>>]

RECURSIVE LcmDen(_)
LcmDen(s) ==
    IF s = <<>> THEN 1
    ELSE LET l == LcmDen(Tail(s))
         IN  (Head(s).d \div Gcd(Head(s).d, l)) * l

RECURSIVE GcdAll(_)
GcdAll(s) == IF s = <<>> THEN 0 ELSE Gcd(Abs(Head(s)), GcdAll(Tail(s)))

\* (x - mean) / std written by hand: a zero std is divided by all the same
StandardizeColUnguarded(x) ==
    LET vals == DropNaN(x)
        n    == Len(vals)
        mean == RMul(Rat(1, n), RSum(vals))
        devs == [k \in DOMAIN vals |-> RSub(vals[k], mean)]
        l    == LcmDen(devs)
        ints == [k \in DOMAIN vals |-> devs[k].n * (l \div devs[k].d)]
        g    == GcdAll(ints)
        unit == [k \in DOMAIN vals |-> ints[k] \div g]
        Z(c) == IF ~IsNum(c) THEN ZNaN
                ELSE LET dv == RSub(c, mean)
                         j  == (dv.n * (l \div dv.d)) \div g
                     IN  IF j = 0 THEN ZZero ELSE [j |-> j, n |-> n, devs |-> unit]
    IN  IF n = 0 \/ g = 0 THEN [i \in DOMAIN x |-> ZNaN]
        ELSE [i \in DOMAIN x |-> Z(x[i])]

\* StandardScaler().fit_transform on one column: (x - mean_) / scale_, where
\* mean_ and var_ are the column's own mean and population variance (NaN cells
\* skipped), scale_ = sqrt(var_), and a zero scale_ is replaced by 1
StandardizeCol(x) ==
    LET vals == DropNaN(x)
        n    == Len(vals)
        mean == RMul(Rat(1, n), RSum(vals))
        devs == [k \in DOMAIN vals |-> RSub(vals[k], mean)]
        l    == LcmDen(devs)
        ints == [k \in DOMAIN vals |-> devs[k].n * (l \div devs[k].d)]
        g    == GcdAll(ints)
        unit == [k \in DOMAIN vals |-> ints[k] \div g]
        Z(c) == IF ~IsNum(c) THEN ZNaN
                ELSE LET dv == RSub(c, mean)
                         j  == (dv.n * (l \div dv.d)) \div g
                     IN  IF j = 0 THEN ZZero ELSE [j |-> j, n |-> n, devs |-> unit]
    IN  IF n = 0 THEN [i \in DOMAIN x |-> ZNaN]
        ELSE IF g = 0 THEN [i \in DOMAIN x |-> IF IsNum(x[i]) THEN ZZero ELSE ZNaN]
        ELSE [i \in DOMAIN x |-> Z(x[i])]

continuous_cols ==
    <<"site_energy_use", "electricity_ratio", "gas_ratio", "site_eui", "building_density">>

\* check_array(force_all_finite="allow-nan"): an infinite cell makes fit raise
HasInf(d) ==
    \E i \in DOMAIN d : \E c \in Range(continuous_cols) : d[i][c].d = 0 /\ d[i][c].n # 0

StandardizeDf(d) ==
    LET z == [c \in Range(continuous_cols) |-> StandardizeCol(Column(d, c))]
    IN  [i \in DOMAIN d |->
            [c \in DOMAIN d[i] |-> IF c \in DOMAIN z THEN z[c][i] ELSE d[i][c]]]

-----------------------------------------------------------------------------
(* section 10: export *)

final_columns_ghg ==
    <<"site_energy_use", "electricity_ratio", "gas_ratio", "floors_cat", "year_built_cat">>

final_columns_energy ==
    <<"site_eui", "f_is_large_building", "floors_cat", "building_density", "gas_ratio">>

\* df[cols]: the named columns, in the order of cols, one row per row of df
Project(d, cols) == [i \in DOMAIN d |-> [k \in DOMAIN cols |-> d[i][cols[k]]]]

\* the whole script on one raw table, when no step raises
Transform(raw) ==
    LET r == RenameDf(raw)
    IN  StandardizeDf(YearDf(FloorsDf(DeriveDf(WinsorizeDf(ImputeDf(r, MediansOf(r)))))))

-----------------------------------------------------------------------------
(* The raw tables the script is run on *)

MaxRows == 2

MaxRuns == 2

\* k * 1e-7 kBtu
E7(k) == Rat(k, 10000000)

\* k * 100000 square feet
G5(k) == Rat(k, 10000000)

RawRow(seu, kwh, kbtu, gas, eui, gfa, floors, year) ==
       ("SiteEnergyUse(kBtu)" :> seu) @@ ("Electricity(kWh)" :> kwh)
    @@ ("Electricity(kBtu)" :> kbtu)  @@ ("NaturalGas(kBtu)" :> gas)
    @@ ("SiteEUI(kBtu/sf)" :> eui)    @@ ("PropertyGFATotal" :> gfa)
    @@ ("NumberofFloors" :> floors)   @@ ("YearBuilt" :> year)

\* kWh, around the electricity_kwh fill value
Kwh(k) == Rat(47241534 + 100 * k, 100)

RawRows ==
    { RawRow(E7(2), Kwh(100),  E7(1), E7(1), Whole(80), G5(2), Whole(10), Whole(1950)),
      RawRow(E7(0), NaN,       E7(0), E7(0), NaN,       NaN,   Whole(4),  Whole(1977)),
      RawRow(E7(1), Kwh(-100), E7(1), E7(0), Whole(50), G5(1), NaN,       NaN),
      RawRow(E7(1), Kwh(100),  E7(0), E7(1), Whole(52), G5(0), Whole(9),  Whole(1995)),
      RawRow(E7(2), Kwh(-100), E7(2), E7(0), Whole(80), G5(2), Whole(-1), Whole(1850)) }

RawBatches == UNION {[1..k -> RawRows] : k \in 1..MaxRows}

\* a record whose site energy use is minus the 1e-9 of the derived features
NegEpsilonRow ==
    RawRow(RNeg(Epsilon), Kwh(100), E7(1), E7(0), Whole(80), G5(2), Whole(10), Whole(1950))

\* a record of 10 floors built in 1950, 150000 square feet, whose electricity
\* is half and whose gas is a quarter of its site energy use (2e-7 kBtu), its
\* Electricity(kWh) cell empty
ScenarioRow ==
    RawRow(E7(2), NaN, E7(1), Rat(1, 20000000), Whole(80), Rat(3, 20000000),
           Whole(10), Whole(1950))

\* a file without the column c
DropColumn(row, c) == [k \in DOMAIN row \ {c} |-> row[k]]

TablesWithoutAColumn ==
    {<<DropColumn(NegEpsilonRow, c), DropColumn(ScenarioRow, c)>> : c \in DOMAIN columns_mapping}

RawTables ==
    RawBatches \cup {<<NegEpsilonRow>>, <<ScenarioRow>>} \cup TablesWithoutAColumn

EmptyTable == [c \in {} |-> NaN]

\* the parts of the state a specification does not use
PipeIdle ==
    /\ csv = <<>> /\ pc = "off" /\ run = 0 /\ df = <<>>
    /\ medians = EmptyTable /\ bounds = EmptyTable /\ written = <<>>

ServeIdle ==
    /\ model_store = <<>>
    /\ features_energy = <<>> /\ features_co2 = <<>> /\ reqs = <<>>

EncIdle == enc = [kind |-> "off", x |-> NaN, pc |-> "off", out |-> 0]

-----------------------------------------------------------------------------
(* The script as a state machine: one action per numbered section *)

\* a reader that hands the rows over in an order that depends on the run
ReadCsvShuffled ==
    IF run % 2 = 0 THEN [i \in DOMAIN csv |-> csv[Len(csv) + 1 - i]] ELSE csv

\* pd.read_csv(RAW_DATA_PATH)
ReadCsv == csv

Load ==
    /\ pc = "load"
    /\ df' = ReadCsv
    /\ pc' = "rename"
    /\ UNCHANGED <<csv, run, medians, bounds, written, svars, enc>>

Rename ==
    /\ pc = "rename"
    /\ df' = RenameDf(df)
    /\ pc' = "impute"
    /\ UNCHANGED <<csv, run, medians, bounds, written, svars, enc>>

\* df["gfa_total"] raises KeyError while the dict is built (line 65), df[col]
\* raises it in the fill loop (line 68); nothing catches it
Impute ==
    /\ pc = "impute"
    /\ IF "gfa_total" \notin Columns(df)
       THEN pc' = "crashed" /\ UNCHANGED <<df, medians>>
       ELSE /\ medians' = MediansOf(df)
            /\ df' = ImputeDf(df, medians')
            /\ pc' = IF MissingKeys(df) = {} THEN "winsorize" ELSE "crashed"
    /\ UNCHANGED <<csv, run, bounds, written, svars, enc>>

\* a script whose section 5 logs the bounds and leaves the columns as they are
WinsorizeSkipped ==
    /\ pc = "winsorize"
    /\ bounds' = BoundsOf(df)
    /\ pc' = "derive"
    /\ UNCHANGED <<csv, run, df, medians, written, svars, enc>>

Winsorize ==
    /\ pc = "winsorize"
    /\ bounds' = BoundsOf(df)
    /\ df' = WinsorizeDf(df)
    /\ pc' = "derive"
    /\ UNCHANGED <<csv, run, medians, written, svars, enc>>

Derive ==
    /\ pc = "derive"
    /\ df' = DeriveDf(df)
    /\ pc' = "floors"
    /\ UNCHANGED <<csv, run, medians, bounds, written, svars, enc>>

EncodeFloors ==
    /\ pc = "floors"
    /\ df' = FloorsDf(df)
    /\ pc' = IF Raises(df', "floors_cat") THEN "crashed" ELSE "year"
    /\ UNCHANGED <<csv, run, medians, bounds, written, svars, enc>>

EncodeYear ==
    /\ pc = "year"
    /\ df' = YearDf(df)
    /\ pc' = IF Raises(df', "year_built_cat") THEN "crashed" ELSE "standardize"
    /\ UNCHANGED <<csv, run, medians, bounds, written, svars, enc>>

Standardize ==
    /\ pc = "standardize"
    /\ IF HasInf(df)
       THEN pc' = "crashed" /\ UNCHANGED df
       ELSE pc' = "export" /\ df' = StandardizeDf(df)
    /\ UNCHANGED <<csv, run, medians, bounds, written, svars, enc>>

\* both to_csv calls
Export ==
    /\ pc = "export"
    /\ written' = Append(written, [co2    |-> Project(df, final_columns_ghg),
                                   energy |-> Project(df, final_columns_energy)])
    /\ pc' = "done"
    /\ UNCHANGED <<csv, run, df, medians, bounds, svars, enc>>

\* the script is started again on the same file
Rerun ==
    /\ pc = "done"
    /\ run < MaxRuns
    /\ run' = run + 1
    /\ pc' = "load"
    /\ UNCHANGED <<csv, df, medians, bounds, written, svars, enc>>

Init ==
    /\ csv \in RawTables
    /\ pc = "load"
    /\ run = 1
    /\ df = <<>>
    /\ medians = EmptyTable
    /\ bounds = EmptyTable
    /\ written = <<>>
    /\ ServeIdle
    /\ EncIdle

Next ==
    \/ Load \/ Rename \/ Impute \/ Winsorize \/ Derive
    \/ EncodeFloors \/ EncodeYear \/ Standardize \/ Export \/ Rerun

Spec == Init /\ [][Next]_vars

-----------------------------------------------------------------------------
(* The two ordinal encoders applied to one value *)

EncFloorMargin == 4

EncYearMargin == 10

\* floor counts in halves, from below zero to beyond the last bin edge
FloorInputs == {Rat(k, 2) : k \in (-2 * EncFloorMargin)..(2 * (8 + EncFloorMargin))}

\* construction years from before the first label to after the last
YearInputs == {Whole(y) : y \in (1900 - EncYearMargin)..(2015 + EncYearMargin)}

ApplyFloors ==
    /\ enc.kind = "floors" /\ enc.pc = "start"
    /\ LET out == floors_cat(enc.x)
       IN  enc' = [enc EXCEPT !.out = out, !.pc = IF out = 0 THEN "raised" ELSE "done"]
    /\ UNCHANGED <<pvars, svars>>

ApplyYear ==
    /\ enc.kind = "year" /\ enc.pc = "start"
    /\ LET out == year_built_cat(enc.x)
       IN  enc' = [enc EXCEPT !.out = out, !.pc = IF out = 0 THEN "raised" ELSE "done"]
    /\ UNCHANGED <<pvars, svars>>

InitEncode ==
    /\ PipeIdle
    /\ ServeIdle
    /\ enc \in {[kind |-> "floors", x |-> v, pc |-> "start", out |-> 0] : v \in FloorInputs}
          \cup {[kind |-> "year", x |-> v, pc |-> "start", out |-> 0] : v \in YearInputs}

NextEncode == ApplyFloors \/ ApplyYear

SpecEncode == InitEncode /\ [][NextEncode]_vars

-----------------------------------------------------------------------------
(* The serving endpoints: energy_service.py, co2_service.py, service.py *)

MaxFeatures == 2

MaxRequests == 2

Services == {"energy", "co2"}

\* custom_objects.get("features", []): the list registered with the model,
\* the empty list when none was registered
FeatureLists == {[k \in 1..n |-> k] : n \in 0..MaxFeatures}

\* what a model was saved with: custom_objects={"features": list}, or no
\* "features" entry at all
CustomObjects == {<<>>} \cup {[k \in {"features"} |-> l] : l \in FeatureLists}

\* a lookup that hands back the default whether the key is there or not
custom_get_default(co, key, default) == default

\* custom_objects.get(key, default)
custom_get(co, key, default) == IF key \in DOMAIN co THEN co[key] ELSE default

Features(svc) == IF svc = "energy" THEN features_energy ELSE features_co2

TargetKey(svc) == IF svc = "energy" THEN "site_energy_use" ELSE "ghg_emissions_total"

\* a JSON features list of n numbers, integers and decimals alternating
Payload(n) == [k \in 1..n |-> [t |-> IF k % 2 = 1 THEN "int" ELSE "float", v |-> 10 * k]]

Payloads == {Payload(n) : n \in 0..(MaxFeatures + 1)}

\* features: list[float]: every number becomes a float of the same value
ParseFeatures(payload) == [k \in DOMAIN payload |-> [t |-> "float", v |-> payload[k].v]]

\* a validator that only turns down lists that are too short
check_length_short(v, feats) == Len(v) >= Len(feats)

\* @validator('features') check_length: TRUE when v is returned, FALSE when
\* ValueError is raised
check_length(v, feats) == ~(Len(v) # Len(feats))

NoArray == [shape |-> <<>>, data |-> <<>>]

\* np.array(list of floats): one axis
NpArray(list) == [shape |-> <<Len(list)>>, data |-> list]

RECURSIVE Size(_)
Size(shape) == IF shape = <<>> THEN 1 ELSE Head(shape) * Size(Tail(shape))

\* .reshape(-1, 1): one row per value
ReshapeColumn(arr) == [shape |-> <<Size(arr.shape), 1>>, data |-> arr.data]

\* .reshape(1, -1): one row holding every value, in order
ReshapeRow(arr) == [shape |-> <<1, Size(arr.shape)>>, data |-> arr.data]

NoResponse == [kind |-> "none", key |-> "", value |-> 0, message |-> ""]

NoResult == [kind |-> "none", v |-> 0]

\* what the predictor may hand back: a vector of predictions, an empty
\* vector, a bare scalar, a two-dimensional array, or an exception
PredictorOutcomes ==
    {[kind |-> k, v |-> 7] : k \in {"vector", "empty", "scalar", "matrix", "raise"}}

ErrorText(result) ==
    CASE result.kind = "raise"  -> "predictor failed"
      [] result.kind = "empty"  -> "index 0 is out of bounds"
      [] result.kind = "scalar" -> "invalid index to scalar variable"
      [] result.kind = "matrix" -> "unsupported format string"
      [] OTHER                  -> ""

\* a handler whose try block ends at the await: what pred[0] and float() raise
\* afterwards leaves the handler
RespondUnguarded(svc, result) ==
    IF result.kind = "vector"
    THEN [kind |-> "json", key |-> TargetKey(svc), value |-> result.v, message |-> ""]
    ELSE IF result.kind = "raise"
    THEN [kind |-> "json", key |-> "error", value |-> 0, message |-> ErrorText(result)]
    ELSE [kind |-> "raised", key |-> "", value |-> 0, message |-> ErrorText(result)]

\* the try block after the await: {target: float(pred[0])}, and
\* {"error": str(e)} for anything raised by the predictor, by pred[0], by the
\* format of the log line or by float()
Respond(svc, result) ==
    IF result.kind = "vector"
    THEN [kind |-> "json", key |-> TargetKey(svc), value |-> result.v, message |-> ""]
    ELSE [kind |-> "json", key |-> "error", value |-> 0, message |-> ErrorText(result)]

\* a request arrives at one of the two endpoints
Receive(svc, payload) ==
    /\ Len(reqs) < MaxRequests
    /\ reqs' = Append(reqs, [svc |-> svc, payload |-> payload, stage |-> "received",
                             data |-> <<>>, input |-> NoArray, result |-> NoResult,
                             response |-> NoResponse])
    /\ UNCHANGED <<model_store, features_energy, features_co2, pvars, enc>>

\* JSON(pydantic_model=...): the input model is built before the handler runs;
\* the ValueError of check_length leaves the repository's code
Validate(i) ==
    /\ reqs[i].stage = "received"
    /\ LET v == ParseFeatures(reqs[i].payload)
       IN  IF check_length(v, Features(reqs[i].svc))
           THEN reqs' = [reqs EXCEPT ![i].stage = "validated", ![i].data = v]
           ELSE reqs' = [reqs EXCEPT ![i].stage = "rejected",
                             ![i].response = [kind |-> "raised", key |-> "", value |-> 0,
                                              message |-> "ValueError"]]
    /\ UNCHANGED <<model_store, features_energy, features_co2, pvars, enc>>

\* predict_energy / predict_co2 up to the await on the runner
Handle(i) ==
    /\ reqs[i].stage = "validated"
    /\ reqs' = [reqs EXCEPT ![i].stage = "awaiting",
                            ![i].input = ReshapeRow(NpArray(reqs[i].data))]
    /\ UNCHANGED <<model_store, features_energy, features_co2, pvars, enc>>

\* the runner's predict.async_run completes
PredictorDone(i, outcome) ==
    /\ reqs[i].stage = "awaiting"
    /\ reqs' = [reqs EXCEPT ![i].stage = "resumed", ![i].result = outcome]
    /\ UNCHANGED <<model_store, features_energy, features_co2, pvars, enc>>

\* a handler that keeps the runner's answer in a module-level variable: it
\* answers with the answer that arrived last, whichever request it was for
FinishShared(i) ==
    /\ reqs[i].stage = "resumed"
    /\ LET got  == {j \in DOMAIN reqs : reqs[j].result # NoResult}
           last == CHOOSE j \in got : \A h \in got : h <= j
       IN  reqs' = [reqs EXCEPT ![i].stage = "answered",
                                ![i].response = Respond(reqs[i].svc, reqs[last].result)]
    /\ UNCHANGED <<model_store, features_energy, features_co2, pvars, enc>>

\* the handler resumes and returns
Finish(i) ==
    /\ reqs[i].stage = "resumed"
    /\ reqs' = [reqs EXCEPT ![i].stage = "answered",
                            ![i].response = Respond(reqs[i].svc, reqs[i].result)]
    /\ UNCHANGED <<model_store, features_energy, features_co2, pvars, enc>>

\* the service module has been imported: both models looked up in the store
InitServe ==
    /\ PipeIdle
    /\ EncIdle
    /\ model_store \in [Services -> CustomObjects]
    /\ features_energy = custom_get(model_store["energy"], "features", <<>>)
    /\ features_co2 = custom_get(model_store["co2"], "features", <<>>)
    /\ reqs = <<>>

NextServe ==
    \/ \E svc \in Services : \E payload \in Payloads : Receive(svc, payload)
    \/ \E i \in DOMAIN reqs : Validate(i)
    \/ \E i \in DOMAIN reqs : Handle(i)
    \/ \E i \in DOMAIN reqs : \E outcome \in PredictorOutcomes : PredictorDone(i, outcome)
    \/ \E i \in DOMAIN reqs : Finish(i)

SpecServe == InitServe /\ [][NextServe]_vars

-----------------------------------------------------------------------------
(* From the processed datasets to the endpoints: tests/test_api.py sends rows *)
(* of the two datasets, one request after the other                            *)

\* the header row of the dataset written for a service
Header(svc) == IF svc = "energy" THEN final_columns_energy ELSE final_columns_ghg

\* the feature list saved with each model: the columns of its dataset
RegisteredFeatures(svc) == Header(svc)

\* data[features].iloc[index].tolist(): the cells of row index under the
\* registered names, in the order of the list, every one a float
SampleOf(svc, index) ==
    LET last == written[Len(written)]
        data == IF svc = "energy" THEN last.energy ELSE last.co2
        At(name) == CHOOSE k \in DOMAIN Header(svc) : Header(svc)[k] = name
    IN  [k \in DOMAIN Features(svc) |->
            [t |-> "float", v |-> data[index][At(Features(svc)[k])]]]

\* test_energy_prediction / test_co2_prediction: requests.post blocks, so a
\* sample is sent once the previous one is settled
SendSample(svc, index) ==
    /\ pc = "done"
    /\ Len(reqs) < MaxRequests
    /\ \A j \in DOMAIN reqs : reqs[j].stage \in {"answered", "rejected"}
    /\ index \in DOMAIN csv
    /\ reqs' = Append(reqs, [svc |-> svc, payload |-> SampleOf(svc, index),
                             stage |-> "received", data |-> <<>>, input |-> NoArray,
                             result |-> NoResult, response |-> NoResponse])
    /\ UNCHANGED <<model_store, features_energy, features_co2, pvars, enc>>

\* a standardized value of the request is NaN
InputHasNaN(r) ==
    \E k \in DOMAIN r.data :
        Features(r.svc)[k] \in Range(continuous_cols) /\ r.data[k].v.n = 0

\* the fitted regression model: a prediction for one row of as many finite
\* values as it was fitted on, an exception for another width; on a NaN some
\* estimators predict and others raise
FittedOutcomes(r) ==
    IF r.input.shape # <<1, Len(RegisteredFeatures(r.svc))>>
    THEN {[kind |-> "raise", v |-> 7]}
    ELSE IF InputHasNaN(r)
    THEN {[kind |-> "vector", v |-> 7], [kind |-> "raise", v |-> 7]}
    ELSE {[kind |-> "vector", v |-> 7]}

PredictorDoneFitted(i) ==
    \E outcome \in FittedOutcomes(reqs[i]) : PredictorDone(i, outcome)

InitEndToEnd ==
    /\ csv \in RawTables
    /\ pc = "load"
    /\ run = 1
    /\ df = <<>>
    /\ medians = EmptyTable
    /\ bounds = EmptyTable
    /\ written = <<>>
    /\ EncIdle
    /\ model_store = [svc \in Services |-> [k \in {"features"} |-> RegisteredFeatures(svc)]]
    /\ features_energy = custom_get(model_store["energy"], "features", <<>>)
    /\ features_co2 = custom_get(model_store["co2"], "features", <<>>)
    /\ reqs = <<>>

NextEndToEnd ==
    \/ Load \/ Rename \/ Impute \/ Winsorize \/ Derive
    \/ EncodeFloors \/ EncodeYear \/ Standardize \/ Export
    \/ \E svc \in Services : \E index \in 1..MaxRows : SendSample(svc, index)
    \/ \E i \in DOMAIN reqs : Validate(i)
    \/ \E i \in DOMAIN reqs : Handle(i)
    \/ \E i \in DOMAIN reqs : PredictorDoneFitted(i)
    \/ \E i \in DOMAIN reqs : Finish(i)

SpecEndToEnd == InitEndToEnd /\ [][NextEndToEnd]_vars

-----------------------------------------------------------------------------
(* Properties of the preprocessing script *)

\* what the script computes from another raw table b, up to imputation
MediansFor(b) == MediansOf(RenameDf(b))

ImputedFor(b) == ImputeDf(RenameDf(b), MediansFor(b))

\* C1: every column of the imputation table is filled with a frozen constant:
\* whatever other table the script is run on, the fill value of each column
\* is the one this run used.
C1_FillValuesFrozen ==
    DOMAIN medians # {} =>
        \A b \in RawBatches : \A c \in DOMAIN medians : MediansFor(b)[c] = medians[c]

\* C2: the clip bounds winsorize applies to a column are the same for every
\* table: they are not computed from the table being transformed.
C2_BoundsFrozen ==
    DOMAIN bounds # {} =>
        \A b \in RawBatches : \A c \in DOMAIN bounds : BoundsOf(ImputedFor(b))[c] = bounds[c]

\* C3: row independence: the feature vectors exported for row i of the table
\* are the ones exported when row i is the whole table.
C3_RowIndependence ==
    pc = "done" =>
        \A i \in DOMAIN csv :
            LET alone == Transform(<<csv[i]>>)
                last  == written[Len(written)]
            IN  /\ last.co2[i] = Project(alone, final_columns_ghg)[1]
                /\ last.energy[i] = Project(alone, final_columns_energy)[1]

C9_WinsorizeWithinBounds ==
    [][pc = "winsorize" =>
        \A i \in DOMAIN df : \A c \in Range(cols_to_winsorize) :
            LET lo == bounds'[c].lower
                hi == bounds'[c].upper
            IN  /\ RLe(lo, df'[i][c]) /\ RLe(df'[i][c], hi)
                /\ (RLe(lo, df[i][c]) /\ RLe(df[i][c], hi)) => df'[i][c] = df[i][c]]_vars

\* the denominator of the three ratios of a row
Denominator(row) == RAdd(row["site_energy_use"], Epsilon)

\* C11: division safety: for every row that reaches the derived features the
\* denominator site_energy_use + 1e-9 is not zero, electricity_ratio and
\* gas_ratio are numbers (not NaN, not infinite), and so is building_density
\* whenever gfa_total is one.
C11_DivisionSafe ==
    pc \in {"floors", "year", "standardize"} =>
        \A i \in DOMAIN df :
            /\ Denominator(df[i]).n # 0
            /\ IsNum(df[i]["electricity_ratio"])
            /\ IsNum(df[i]["gas_ratio"])
            /\ IsNum(df[i]["gfa_total"]) => IsNum(df[i]["building_density"])

\* a continuous column whose standard deviation is 0: its cells are all the
\* same number
Degenerate(d) ==
    \E c \in Range(continuous_cols) :
        LET vals == DropNaN(Column(d, c))
        IN  vals # <<>> /\ \A k \in DOMAIN vals : vals[k] = vals[1]

\* C12: when a continuous column has standard deviation 0 the standardization
\* step fails: the run aborts and nothing is exported.
C12_DegenerateColumnIsFatal ==
    [][(pc = "standardize" /\ Degenerate(df)) => pc' = "crashed"]_vars

\* a key of columns_mapping is not a column of the table d
LacksSourceColumn(d) == \E r \in DOMAIN columns_mapping : r \notin Columns(d)

NearRatio(a, r, seu) ==
    /\ RLe(a, r)
    /\ RLe(RSub(r, a), RMul(r, RDiv(Epsilon, seu)))

\* the standardized cell z stands for 0 (as every cell of a one-record table
\* does) and 0 is the number r up to the 1e-9 of the denominator
ZIsNear(z, r, seu) ==
    /\ z.n > 0
    /\ z.j = 0
    /\ NearRatio(Whole(0), r, seu)

Winsorized(raw) == WinsorizeDf(ImputedFor(raw))

\* the sections in the order the script runs them
StepOrder ==
    {<<"load", "rename">>, <<"rename", "impute">>, <<"impute", "winsorize">>,
     <<"winsorize", "derive">>, <<"derive", "floors">>, <<"floors", "year">>,
     <<"year", "standardize">>, <<"standardize", "export">>, <<"export", "done">>,
     <<"done", "load">>}

\* what each section has read, on a file with all its columns
ReadsOf(position, frame, raw) ==
    LET w == Winsorized(raw)
    IN  /\ position \in {"floors", "year", "standardize"} =>
              \A i \in DOMAIN raw :
                  LET den == RAdd(w[i]["site_energy_use"], Epsilon)
                  IN  /\ frame[i]["site_energy_use"] = w[i]["site_energy_use"]
                      /\ frame[i]["site_eui"] = w[i]["site_eui"]
                      /\ frame[i]["electricity_ratio"] = RDiv(w[i]["electricity_kbtu"], den)
                      /\ frame[i]["gas_ratio"] = RDiv(w[i]["natural_gas_kbtu"], den)
                      /\ frame[i]["building_density"] = RDiv(w[i]["gfa_total"], den)
                      /\ frame[i]["f_is_large_building"] =
                             IF RLt(LargeGfa, w[i]["gfa_total"]) THEN 1 ELSE 0
        /\ position \in {"year", "standardize", "export", "done"} =>
              \A i \in DOMAIN raw : frame[i]["floors_cat"] = floors_cat(w[i]["num_floors"])
        /\ position \in {"standardize", "export", "done"} =>
              \A i \in DOMAIN raw : frame[i]["year_built_cat"] = year_built_cat(w[i]["year_built"])
        /\ position \in {"export", "done"} =>
              LET derived == DeriveDf(w)
              IN  \A i \in DOMAIN raw :
                      /\ \A c \in Range(continuous_cols) :
                             frame[i][c] = StandardizeCol(Column(derived, c))[i]
                      /\ \A c \in Range(cols_to_winsorize) \ Range(continuous_cols) :
                             frame[i][c] = w[i][c]
                      /\ frame[i]["f_is_large_building"] = derived[i]["f_is_large_building"]

\* C17: step ordering: the sections run in the order rename, imputation,
\* winsorizing, derived features, encodings, standardization; the derived
\* features and the categories are computed from the imputed and winsorized,
\* not yet standardized, columns, and only the five continuous columns are
\* standardized, afterwards.
C17_StepOrdering ==
    [][/\ (pc' # pc /\ pc' # "crashed") => <<pc, pc'>> \in StepOrder
       /\ ~LacksSourceColumn(csv) => ReadsOf(pc', df', csv)]_vars

\* a table in which clipping changed a floor count has been exported
C17_Witness ==
    /\ pc = "done"
    /\ \E i \in DOMAIN csv :
           Winsorized(csv)[i]["num_floors"] # ImputedFor(csv)[i]["num_floors"]

\* C19: no step adds, removes or reorders rows: the frame has one row per row
\* of the raw file at every step, and each exported dataset has one row per
\* input row, in input order (row i carries the year category of input row i).
C19_RowsKept ==
    /\ pc # "load" => Len(df) = Len(csv)
    /\ \A k \in DOMAIN written :
           /\ Len(written[k].co2) = Len(csv)
           /\ Len(written[k].energy) = Len(csv)
           /\ \A i \in DOMAIN csv :
                  written[k].co2[i][5] = year_built_cat(FillNa(csv[i]["YearBuilt"], Whole(1977)))

\* two records of different year categories have been exported, the later
\* category first
C19_Witness ==
    /\ pc = "done"
    /\ Len(csv) = 2
    /\ written[1].co2[1][5] > written[1].co2[2][5]

-----------------------------------------------------------------------------
(* Properties of the ordinal encoders *)

\* C10: ordinal encoding totality: for every finite floor count floors_cat is
\* in 1..3, for every finite year year_built_cat is in 1..5, and neither
\* encoder raises.
C10_EncodingTotal ==
    /\ enc.pc # "raised"
    /\ enc.pc = "done" =>
          IF enc.kind = "floors" THEN enc.out \in 1..3 ELSE enc.out \in 1..5

\* a negative floor count has been encoded
C10_Witness ==
    enc.pc = "done" /\ enc.kind = "floors" /\ RLt(enc.x, Whole(0)) /\ enc.out = 1

\* C18: both encodings have fixed bin edges and preserve order: floors_cat is
\* 1 iff x <= 4, 2 iff 4 < x <= 8, 3 iff x > 8; year_built_cat is 1 iff
\* year <= 1960, 2 iff 1960 < year <= 1976, 3 iff 1976 < year <= 1980, 4 iff
\* 1980 < year <= 1994, 5 iff year > 1994; and x <= y implies
\* encode(x) <= encode(y).
C18_OrderPreserving ==
    enc.pc = "done" =>
        LET x == enc.x
            In(lo, hi) == RLt(Whole(lo), x) /\ RLe(x, Whole(hi))
        IN  IF enc.kind = "floors"
            THEN /\ enc.out = 1 <=> RLe(x, Whole(4))
                 /\ enc.out = 2 <=> In(4, 8)
                 /\ enc.out = 3 <=> RLt(Whole(8), x)
                 /\ \A y \in FloorInputs : RLe(x, y) => enc.out <= floors_cat(y)
            ELSE /\ enc.out = 1 <=> RLe(x, Whole(1960))
                 /\ enc.out = 2 <=> In(1960, 1976)
                 /\ enc.out = 3 <=> In(1976, 1980)
                 /\ enc.out = 4 <=> In(1980, 1994)
                 /\ enc.out = 5 <=> RLt(Whole(1994), x)
                 /\ \A y \in YearInputs : RLe(x, y) => enc.out <= year_built_cat(y)

\* the year on a bin edge has been encoded
C18_Witness ==
    enc.pc = "done" /\ enc.kind = "year" /\ enc.x = Whole(1976) /\ enc.out = 2

-----------------------------------------------------------------------------
(* Properties of the serving endpoints *)

Forwarded(r) == r.stage \in {"awaiting", "resumed", "answered"}

\* C4: a request whose features list has another length than the model's
\* feature list is rejected by check_length and never reaches the predictor;
\* a request the predictor was called for has passed the length check.
C4_CheckedBeforePredictor ==
    \A i \in DOMAIN reqs :
        LET r == reqs[i]
            n == Len(Features(r.svc))
        IN  /\ r.input # NoArray =>
                  /\ Forwarded(r)
                  /\ Len(r.payload) = n
                  /\ r.data = ParseFeatures(r.payload)
            /\ (Len(r.payload) # n /\ r.stage # "received") =>
                  /\ r.stage = "rejected"
                  /\ r.input = NoArray
                  /\ r.result = NoResult

\* one request was rejected for its length and another one of the same
\* endpoint went through the predictor
C4_Witness ==
    \E i, j \in DOMAIN reqs :
        /\ reqs[i].svc = reqs[j].svc
        /\ reqs[i].stage = "rejected"
        /\ reqs[j].stage = "answered"

\* C5: a request of exactly the expected length is forwarded unchanged: the
\* predictor receives one row holding the caller's values in the caller's
\* order, nothing added, dropped or changed.
C5_ForwardedUnchanged ==
    \A i \in DOMAIN reqs :
        LET r == reqs[i]
        IN  /\ Len(r.payload) = Len(Features(r.svc)) => r.stage # "rejected"
            /\ Forwarded(r) =>
                  /\ r.input.shape = <<1, Len(r.payload)>>
                  /\ Len(r.input.data) = Len(r.payload)
                  /\ \A k \in DOMAIN r.payload : r.input.data[k].v = r.payload[k].v

\* a request of two or more values is waiting for the predictor
C5_Witness ==
    \E i \in DOMAIN reqs : reqs[i].stage = "awaiting" /\ Len(reqs[i].payload) >= 2

\* C6: every request that reaches the handler gets exactly one response,
\* {target: float} when the predictor returned a prediction and
\* {"error": message} when it raised or returned something that cannot be
\* indexed and converted; nothing leaves the handler as an exception.
C6_AlwaysStructuredResponse ==
    \A i \in DOMAIN reqs :
        LET r == reqs[i]
        IN  /\ r.stage \in {"validated", "awaiting", "resumed"} => r.response = NoResponse
            /\ r.stage = "answered" =>
                  /\ r.response.kind = "json"
                  /\ IF r.result.kind = "vector"
                     THEN r.response.key = TargetKey(r.svc) /\ r.response.value = r.result.v
                     ELSE r.response.key = "error"

\* a request whose predictor returned a bare scalar has been answered
C6_Witness ==
    \E i \in DOMAIN reqs :
        /\ reqs[i].stage = "answered"
        /\ reqs[i].result.kind = "scalar"
        /\ reqs[i].response.key = "error"

\* C7: every failure of a request, a wrong length like a predictor failure,
\* is answered by the repository's code with an {"error": string} payload.
C7_EveryFailureSameShape ==
    \A i \in DOMAIN reqs :
        LET r == reqs[i]
        IN  (r.stage = "rejected" \/ (r.stage = "answered" /\ r.result.kind # "vector")) =>
                r.response.kind = "json" /\ r.response.key = "error"

\* the response a request is owed, from its own features and the predictor's
\* answer for it alone
OwnResponse(r) ==
    IF r.result.kind = "vector"
    THEN [kind |-> "json", key |-> TargetKey(r.svc), value |-> r.result.v, message |-> ""]
    ELSE [kind |-> "json", key |-> "error", value |-> 0, message |-> ErrorText(r.result)]

\* C16: concurrent requests are independent: in every interleaving a step
\* touches one request only and never the loaded feature lists or the store;
\* the request it touches is rejected only for its own length, hands the
\* predictor its own values, and gets the response built from the predictor's
\* answer for it.
C16_RequestsIndependent ==
    [][/\ model_store' = model_store
       /\ features_energy' = features_energy
       /\ features_co2' = features_co2
       /\ \E j \in DOMAIN reqs' : \A i \in DOMAIN reqs : i # j => reqs'[i] = reqs[i]
       /\ \A i \in DOMAIN reqs' :
              LET r == reqs'[i]
              IN  \/ i \in DOMAIN reqs /\ r = reqs[i]
                  \/ /\ r.stage = "rejected" => Len(r.payload) # Len(Features(r.svc))
                     /\ Forwarded(r) => r.input = ReshapeRow(NpArray(ParseFeatures(r.payload)))
                     /\ r.stage = "answered" => r.response = OwnResponse(r)]_vars

\* two requests of one endpoint were in flight together; the later one, whose
\* predictor call failed, is answered while the earlier one, whose prediction
\* has arrived, has not yet returned
C16_Witness ==
    /\ Len(reqs) >= 2
    /\ reqs[1].svc = reqs[2].svc
    /\ reqs[1].stage = "resumed" /\ reqs[1].result.kind = "vector"
    /\ reqs[2].stage = "answered" /\ reqs[2].result.kind = "raise"

\* C20: the length check_length enforces is the length of the feature list
\* the model was registered with; a model registered without a "features"
\* entry has the empty list, so that only the empty features list passes and
\* every other one is rejected before the predictor.
C20_ExpectedLengthFromRegistration ==
    \A svc \in Services :
        LET co == model_store[svc]
            n  == IF "features" \in DOMAIN co THEN Len(co["features"]) ELSE 0
        IN  /\ "features" \in DOMAIN co => Features(svc) = co["features"]
            /\ "features" \notin DOMAIN co => Features(svc) = <<>>
            /\ \A i \in DOMAIN reqs :
                   LET r == reqs[i]
                   IN  (r.svc = svc /\ r.stage # "received") =>
                          /\ r.stage = "rejected" <=> Len(r.payload) # n
                          /\ r.stage = "rejected" => r.input = NoArray /\ r.result = NoResult

\* at an endpoint whose model has no "features" entry, a non-empty list was
\* rejected and the empty list went to the predictor
C20_Witness ==
    \E i, j \in DOMAIN reqs :
        /\ reqs[i].svc = reqs[j].svc
        /\ "features" \notin DOMAIN model_store[reqs[i].svc]
        /\ reqs[i].stage = "rejected" /\ Len(reqs[i].payload) > 0
        /\ Forwarded(reqs[j]) /\ reqs[j].payload = <<>>

\* C15: every row of a written dataset, projected onto the feature list
\* registered with the matching model, passes the length check and is
\* answered with a body that holds the target key.
C15_DatasetRowsAreServed ==
    \A i \in DOMAIN reqs :
        LET r == reqs[i]
        IN  /\ r.stage # "rejected"
            /\ r.stage = "answered" =>
                   r.response.kind = "json" /\ r.response.key = TargetKey(r.svc)

====
